---------------------------- MODULE Spec2Model ----------------------------
(***************************************************************************)
(* DDNS updater (src/main.py): a blocking scheduler fires run_updater on a *)
(* cron trigger; run_updater reads secrets.yaml, fetches the public IP     *)
(* once, and for every configured record name locates the record at the    *)
(* provider and writes the IP to it.                                       *)
(*                                                                         *)
(* Inputs of the program (the contents of secrets.yaml at the moment it is *)
(* read, the answer of the IP service, the answers of the DNS provider)    *)
(* are drawn at the call that consumes them.  The parsed configuration is  *)
(* taken to have the documented shape (schedule and cloudflare keys); the  *)
(* read itself may raise.                                                  *)
(***************************************************************************)
EXTENDS Integers, Sequences, FiniteSets, TLC

\* ------------------------------------------------------------- bounds
MaxRecords == 2      \* longest record_names list considered
MaxMatches == 2      \* longest match list the provider returns to a locate
MaxWorkers == 2      \* threads of the scheduler's pool considered

\* max_instances of the job added at main.py:163 (add_job default)
max_instances == 1

\* ------------------------------------------------------------- domains
Workers   == 1..MaxWorkers
Names     == {"a.example.com", "b.example.com"}
Addrs     == {"203.0.113.7", "198.51.100.9"}
RecordIds == {"r1", "r2"}
Crons     == {"*/5 * * * *", "0 * * * *"}

None  == "None"      \* Python's None, as a value of an Optional[str]
Empty == ""          \* the empty string

SeqsUpTo(S, n) == UNION {[1..k -> S] : k \in 0..n}

\* (mutation: a test against None in place of truthiness)
TruthyNotNone(v) == v # None

\* Python truthiness of an Optional[str]: None and "" are falsy
Truthy(v) == v # None /\ v # Empty

\* ------------------------------------------------ the configuration file
\* What read_secrets returns: the parsed document, or an exception.
NoSecrets == [ok |-> FALSE, cron |-> None, record_names |-> <<>>]
Documents == [ok : {TRUE}, cron : Crons, record_names : SeqsUpTo(Names, MaxRecords)]
read_secrets == Documents \cup {NoSecrets}

\* main only ever uses schedule.cron of what it read (main.py:165-168) and
\* never looks at it again, so at startup the file is taken to hold one
\* document, or to be unreadable; the reads of the cycles range over every
\* document (the file may have changed since).
StartupDocument ==
    [ok |-> TRUE, cron |-> "*/5 * * * *",
     record_names |-> <<"a.example.com", "b.example.com">>]
startup_read_secrets == {StartupDocument, NoSecrets}

\* ------------------------------------------------ answers of the outside
\* requests.get("https://ipinfo.io/ip"): raises, or answers status + text
IpResponses ==
    {[exc |-> TRUE, status |-> 0, text |-> Empty]}
    \cup [exc : {FALSE}, status : {200, 500}, text : Addrs \cup {Empty}]

\* client.dns.records.list: raises, or answers an object that is truthy or
\* not and carries the list of matches (record ids, first match first)
ListResponses ==
    {[exc |-> TRUE, truthy |-> FALSE, result |-> <<>>],
     [exc |-> FALSE, truthy |-> FALSE, result |-> <<>>]}
    \cup [exc : {FALSE}, truthy : {TRUE},
          result : SeqsUpTo(RecordIds \cup {Empty}, MaxMatches)]

\* client.dns.records.edit: raises, or answers a truthy or falsy response.
\* applied: whether the provider changed the record (an acknowledged edit
\* was applied; a call that failed may or may not have reached the provider)
EditResponses ==
    {[exc |-> FALSE, truthy |-> TRUE, applied |-> TRUE]}
    \cup [exc : {FALSE}, truthy : {FALSE}, applied : BOOLEAN]
    \cup [exc : {TRUE}, truthy : {FALSE}, applied : BOOLEAN]


\* ------------------------------------------------------------- logging
Line(level, msg, args) == [level |-> level, msg |-> msg, args |-> args]

\* What a called function hands back to run_updater: it returned value, or
\* it raised; log holds the lines it wrote to the logger meanwhile.
Returned(value, lines) == [raised |-> FALSE, value |-> value, log |-> lines]
Raised(lines)          == [raised |-> TRUE,  value |-> None,  log |-> lines]

\* How the outside answered a call, as recorded in the call history
IpAnswer(resp) ==
    IF resp.exc THEN "exc" ELSE IF resp.status = 200 THEN "200" ELSE "non-200"
ListAnswer(resp) ==
    IF resp.exc THEN "exc"
    ELSE IF ~resp.truthy THEN "falsy"
    ELSE IF resp.result = <<>> THEN "empty" ELSE "match"
EditAnswer(resp) ==
    IF resp.exc THEN "exc" ELSE IF resp.truthy THEN "ack" ELSE "falsy"

\* ------------------------------------------------- the three callees
\* main.py:24-43
retrieve_current_public_ip(resp) ==
    IF resp.exc
    THEN Returned(None, <<Line("ERROR", "Error retrieving public IP", <<"exc">>)>>)
    ELSE IF resp.status = 200
         THEN Returned(resp.text, <<>>)
         ELSE Returned(None, <<>>)

\* (mutation: the index into an empty match list is outside the try)
get_record_id_unguarded(record_name, resp) ==
    IF resp.exc
    THEN Returned(None, <<Line("ERROR", "Error getting record ID", <<"exc">>)>>)
    ELSE IF resp.truthy
         THEN IF resp.result = <<>>
              THEN Raised(<<>>)
              ELSE Returned(resp.result[1],
                     <<Line("INFO", "Found record ID for",
                            <<record_name, resp.result[1]>>)>>)
         ELSE Returned(None, <<>>)

\* main.py:52-79.  record.result[0] of an empty match list raises
\* IndexError inside the try, which the except turns into None.
get_record_id(record_name, resp) ==
    IF resp.exc
    THEN Returned(None, <<Line("ERROR", "Error getting record ID", <<"exc">>)>>)
    ELSE IF resp.truthy
         THEN IF resp.result = <<>>
              THEN Returned(None,
                     <<Line("ERROR", "Error getting record ID", <<"IndexError">>)>>)
              ELSE Returned(resp.result[1],
                     <<Line("INFO", "Found record ID for",
                            <<record_name, resp.result[1]>>)>>)
         ELSE Returned(None, <<>>)

\* (mutation: every answer that is not an exception counts as success)
update_dns_record_optimistic(new_ip, resp) ==
    IF resp.exc
    THEN Returned("False", <<Line("ERROR", "Error updating DNS record", <<"exc">>)>>)
    ELSE Returned("True", <<Line("INFO", "DNS record updated to", <<new_ip>>)>>)

\* (mutation: the except branch reports success)
update_dns_record_swallow(new_ip, resp) ==
    IF resp.exc
    THEN Returned("True", <<Line("ERROR", "Error updating DNS record", <<"exc">>)>>)
    ELSE IF resp.truthy
         THEN Returned("True", <<Line("INFO", "DNS record updated to", <<new_ip>>)>>)
         ELSE Returned("False", <<>>)

\* main.py:81-110; the value is the bool as "True" / "False"
update_dns_record(new_ip, resp) ==
    IF resp.exc
    THEN Returned("False", <<Line("ERROR", "Error updating DNS record", <<"exc">>)>>)
    ELSE IF resp.truthy
         THEN Returned("True", <<Line("INFO", "DNS record updated to", <<new_ip>>)>>)
         ELSE Returned("False", <<>>)


\* --------------------------------------------------------------- state
VARIABLES
    proc,          \* the process: "init", "scheduling" (inside scheduler.start()), "exited"
    main_secrets,  \* main's local secrets (main.py:159)
    trigger,       \* the cron expression the job was added with (main.py:165)
    instances,     \* invocations of the job that were started and are not yet over
    last_fire,     \* what the scheduler did at the latest firing
    pc,            \* per pool thread: where its run_updater invocation stands
    secrets,       \* per invocation: run_updater's local secrets (main.py:116)
    current_ip,    \* per invocation: run_updater's local current_ip (main.py:119)
    idx,           \* per invocation: how many record names the for loop has taken
    record_id,     \* per invocation: run_updater's local record_id (main.py:131)
    calls,         \* per invocation: the outbound calls it made so far, in order
    log,           \* per invocation: the log lines it wrote so far, in order
    content,       \* provider side: the content of each DNS record
    prev           \* history: the cycle before the latest one, when it is kept

vars == <<proc, main_secrets, trigger, instances, last_fire, pc, secrets,
          current_ip, idx, record_id, calls, log, content, prev>>

sched  == <<proc, main_secrets, trigger>>
locals == <<secrets, current_ip, idx, record_id>>

\* One outbound call of an invocation
Call(op, pos, name, id, ip, answer, ret) ==
    [op |-> op, pos |-> pos, name |-> name, id |-> id, ip |-> ip,
     answer |-> answer, ret |-> ret]

\* The history of two consecutive cycles.  mode "off": nothing is kept.
\* "first": the first cycle has not ended.  "second": the first cycle has
\* ended; secrets, calls and content are its configuration, its calls and
\* the provider-side content at its end, eff1 its writes' effects.
\* "done": the second cycle has ended too; calls2 and content2 are its
\* calls and the content at its end.  eff: whether each write of the cycle
\* under way changed the record at the provider, in call order.
History(mode) ==
    [mode |-> mode, secrets |-> NoSecrets, calls |-> <<>>, eff1 |-> <<>>,
     content |-> <<>>, calls2 |-> <<>>, content2 |-> <<>>, eff |-> <<>>]

\* the state after construction, whatever is kept as history
Constructed ==
    /\ proc = "init"
    /\ main_secrets = NoSecrets
    /\ trigger = None
    /\ instances = 0
    /\ last_fire = "none"
    /\ pc = [w \in Workers |-> "idle"]
    /\ secrets = [w \in Workers |-> NoSecrets]
    /\ current_ip = [w \in Workers |-> None]
    /\ idx = [w \in Workers |-> 0]
    /\ record_id = [w \in Workers |-> None]
    /\ calls = [w \in Workers |-> <<>>]
    /\ log = [w \in Workers |-> <<>>]
    /\ content \in [RecordIds -> Addrs]

Init == Constructed /\ prev = History("off")

\* ------------------------------------------------------ main.py:158-169
\* main reads secrets.yaml with no handler around it: a failing read ends
\* the process before the scheduler exists.  Otherwise the job is added
\* with the cron expression just read and scheduler.start() blocks.
Main ==
    /\ proc = "init"
    /\ \E f \in startup_read_secrets :
          IF f.ok
          THEN /\ main_secrets' = f
               /\ trigger' = f.cron
               /\ proc' = "scheduling"
          ELSE /\ proc' = "exited"
               /\ UNCHANGED <<main_secrets, trigger>>
    /\ UNCHANGED <<instances, last_fire, pc, locals, calls, log, content, prev>>

\* (mutation: no limit on the invocations under way)
CanSubmitUnlimited == TRUE

\* The scheduler runs a due job only while fewer than max_instances
\* invocations of it are under way (add_job at main.py:163 sets none, so 1).
CanSubmit == instances < max_instances

FreeWorker == CHOOSE w \in Workers : pc[w] = "idle" /\ \A v \in Workers : pc[v] = "idle" => w <= v

\* The trigger fires: the job is handed to a pool thread, or the firing is
\* skipped because an invocation is still under way.
Fire ==
    /\ proc = "scheduling"
    /\ IF CanSubmit
       THEN /\ \E w \in Workers : pc[w] = "idle"
            /\ instances' = instances + 1
            /\ pc' = [pc EXCEPT ![FreeWorker] = "start"]
            /\ calls' = [calls EXCEPT ![FreeWorker] = <<>>]
            /\ log' = [log EXCEPT ![FreeWorker] = <<>>]
            /\ last_fire' = "submitted"
       ELSE /\ last_fire' = "skipped"
            /\ UNCHANGED <<instances, pc, calls, log>>
    /\ UNCHANGED <<sched, locals, content, prev>>

\* (mutation: an exception leaving the job ends the process)
AfterJobCrash(outcome) == IF outcome = "raised" THEN "exited" ELSE "scheduling"

\* What the pool thread does with an invocation that is over: whether it
\* returned or raised, the thread logs, gives the instance back and is free
\* again (the invocation's locals are gone); the scheduler goes on.
AfterJob(outcome) == "scheduling"

JobDone(w) ==
    /\ pc[w] \in {"returned", "raised"}
    /\ proc' = AfterJob(pc[w])
    /\ instances' = instances - 1
    /\ pc' = [pc EXCEPT ![w] = "idle"]
    /\ secrets' = [secrets EXCEPT ![w] = NoSecrets]
    /\ current_ip' = [current_ip EXCEPT ![w] = None]
    /\ idx' = [idx EXCEPT ![w] = 0]
    /\ record_id' = [record_id EXCEPT ![w] = None]
    /\ prev' = CASE prev.mode = "first" ->
                       [prev EXCEPT !.mode = "second", !.secrets = secrets[w],
                                    !.calls = calls[w], !.content = content,
                                    !.eff1 = prev.eff, !.eff = <<>>]
                  [] prev.mode = "second" ->
                       [prev EXCEPT !.mode = "done", !.calls2 = calls[w],
                                    !.content2 = content]
                  [] OTHER -> prev
    /\ UNCHANGED <<main_secrets, trigger, last_fire, calls, log, content>>


\* ------------------------------------------------------ main.py:112-156
\* run_updater, one action per statement group between two outbound calls.
\* calls and log hold what the latest invocation on a thread has done;
\* they start empty when an invocation is handed to the thread.
Say(w, lines) == log' = [log EXCEPT ![w] = log[w] \o lines]
Record(w, call) == calls' = [calls EXCEPT ![w] = Append(calls[w], call)]

\* main.py:113-116: log the start, read secrets.yaml (no handler: a
\* failing read leaves run_updater by exception)
Start(w) ==
    /\ proc = "scheduling"
    /\ pc[w] = "start"
    /\ Say(w, <<Line("INFO", "Starting DDNS update process", <<>>)>>)
    /\ \E f \in read_secrets :
          IF f.ok
          THEN /\ secrets' = [secrets EXCEPT ![w] = f]
               /\ pc' = [pc EXCEPT ![w] = "resolve"]
          ELSE /\ pc' = [pc EXCEPT ![w] = "raised"]
               /\ UNCHANGED secrets
    /\ UNCHANGED <<sched, instances, last_fire, current_ip, idx, record_id,
                   calls, content, prev>>

\* (mutation: the check of current_ip is missing)
ResolveBranchNoCheck(ip) == "loop"

\* main.py:120-122: "if not current_ip: ... return"
ResolveBranch(ip) == IF ~Truthy(ip) THEN "returned" ELSE "loop"

\* main.py:119-124
Resolve(w) ==
    /\ proc = "scheduling"
    /\ pc[w] = "resolve"
    /\ \E resp \in IpResponses :
          LET r == retrieve_current_public_ip(resp) IN
          /\ Record(w, Call("lookup", 0, Empty, Empty, Empty, IpAnswer(resp), r.value))
          /\ IF r.raised
             THEN /\ pc' = [pc EXCEPT ![w] = "raised"]
                  /\ Say(w, r.log)
                  /\ UNCHANGED current_ip
             ELSE /\ current_ip' = [current_ip EXCEPT ![w] = r.value]
                  /\ pc' = [pc EXCEPT ![w] = ResolveBranch(r.value)]
                  /\ Say(w, r.log \o
                         (IF ResolveBranch(r.value) = "returned"
                          THEN <<Line("ERROR", "Failed to retrieve public IP", <<>>)>>
                          ELSE <<Line("INFO", "Current public IP", <<r.value>>)>>))
    /\ UNCHANGED <<sched, instances, last_fire, secrets, idx, record_id, content, prev>>

\* (mutation: the list is walked from its end)
RecordAtReversed(record_names, k) == record_names[Len(record_names) + 1 - k]

\* main.py:127: the for loop hands out the names in list order
RecordAt(record_names, k) == record_names[k]

\* (mutation: the names come from the document main read at startup)
record_name_startup(w) == RecordAt(main_secrets.record_names, idx[w])

\* main.py:127: the name the loop is at, from the cycle's own secrets
record_name(w) == RecordAt(secrets[w].record_names, idx[w])

\* main.py:127-128 and 156: take the next name, or leave the loop and
\* log the completion
Loop(w) ==
    /\ proc = "scheduling"
    /\ pc[w] = "loop"
    /\ IF idx[w] < Len(secrets[w].record_names)
       THEN /\ idx' = [idx EXCEPT ![w] = idx[w] + 1]
            /\ pc' = [pc EXCEPT ![w] = "locate"]
            /\ Say(w, <<Line("INFO", "Processing record",
                             <<RecordAt(secrets[w].record_names, idx[w] + 1)>>)>>)
       ELSE /\ pc' = [pc EXCEPT ![w] = "returned"]
            /\ Say(w, <<Line("INFO", "DDNS update process completed", <<>>)>>)
            /\ UNCHANGED idx
    /\ UNCHANGED <<sched, instances, last_fire, secrets, current_ip, record_id,
                   calls, content, prev>>

\* (mutation: return where the code has continue)
LocateBranchReturn(id) == IF ~Truthy(id) THEN "returned" ELSE "write"

\* (mutation: a record whose content already is the address is skipped)
LocateBranchSkipUnchanged(id) ==
    IF ~Truthy(id) THEN "loop"
    ELSE IF id \in RecordIds
            /\ \E w \in Workers : pc[w] = "locate" /\ content[id] = current_ip[w]
         THEN "loop"
         ELSE "write"

\* (mutation: the test is inverted, a found record is passed over)
LocateBranchInverted(id) == IF Truthy(id) THEN "loop" ELSE "write"

\* main.py:138-140: "if not record_id: ... continue"
LocateBranch(id) == IF ~Truthy(id) THEN "loop" ELSE "write"

\* main.py:131-140
Locate(w) ==
    /\ proc = "scheduling"
    /\ pc[w] = "locate"
    /\ \E resp \in ListResponses :
          LET r == get_record_id(record_name(w), resp) IN
          /\ Record(w, Call("locate", idx[w], record_name(w), Empty, Empty,
                            ListAnswer(resp), r.value))
          /\ IF r.raised
             THEN /\ pc' = [pc EXCEPT ![w] = "raised"]
                  /\ Say(w, r.log)
                  /\ UNCHANGED record_id
             ELSE /\ record_id' = [record_id EXCEPT ![w] = r.value]
                  /\ pc' = [pc EXCEPT ![w] = LocateBranch(r.value)]
                  /\ Say(w, r.log \o
                         (IF LocateBranch(r.value) = "write"
                          THEN <<>>
                          ELSE <<Line("WARNING", "Failed to find record ID for",
                                      <<record_name(w)>>)>>))
    /\ UNCHANGED <<sched, instances, last_fire, secrets, current_ip, idx, content, prev>>

\* (mutation: the arguments of the write are swapped)
new_ip_swapped(w) == record_id[w]

\* (mutation: the write goes to a fixed record id)
dns_record_id_fixed(w) == "r1"

\* (mutation: the record id of the cycle before is used again for a name)
dns_record_id_stale(w) ==
    LET old == {i \in DOMAIN prev.calls :
                  /\ prev.calls[i].op = "write"
                  /\ prev.calls[i].name = record_name(w)}
    IN  IF prev.mode = "second" /\ old # {}
        THEN prev.calls[CHOOSE i \in old : TRUE].id
        ELSE record_id[w]

\* (mutation: a record that already holds the address is given another one)
new_ip_flip(w) ==
    IF record_id[w] \in RecordIds /\ content[record_id[w]] = current_ip[w]
    THEN CHOOSE a \in Addrs : a # current_ip[w]
    ELSE current_ip[w]

\* main.py:147-148: the arguments of the write
dns_record_id(w) == record_id[w]
new_ip(w) == current_ip[w]

\* (mutation: a failed write is tried again at once)
WriteBranchRetry(success) == IF success = "False" THEN "write" ELSE "loop"

\* (mutation: a failed write ends the cycle)
WriteBranchReturnOnFailure(success) == IF success = "False" THEN "returned" ELSE "loop"

\* main.py:151-154: both branches only log; the loop goes on
WriteBranch(success) == "loop"

\* main.py:143-154
Write(w) ==
    /\ proc = "scheduling"
    /\ pc[w] = "write"
    /\ \E resp \in EditResponses :
          LET r == update_dns_record(new_ip(w), resp) IN
          /\ Record(w, Call("write", idx[w], record_name(w), dns_record_id(w),
                            new_ip(w), EditAnswer(resp), r.value))
          /\ content' = IF resp.applied /\ dns_record_id(w) \in RecordIds
                        THEN [content EXCEPT ![dns_record_id(w)] = new_ip(w)]
                        ELSE content
          /\ prev' = IF prev.mode \in {"first", "second"}
                     THEN [prev EXCEPT !.eff = Append(@, resp.applied)]
                     ELSE prev
          /\ IF r.raised
             THEN /\ pc' = [pc EXCEPT ![w] = "raised"]
                  /\ Say(w, r.log)
             ELSE /\ pc' = [pc EXCEPT ![w] = WriteBranch(r.value)]
                  /\ Say(w, r.log \o
                         (IF r.value = "True"
                          THEN <<Line("INFO", "Successfully updated DNS record",
                                      <<record_name(w), new_ip(w)>>)>>
                          ELSE <<Line("ERROR", "Failed to update DNS record",
                                      <<record_name(w)>>)>>))
    /\ UNCHANGED <<sched, instances, last_fire, secrets, current_ip, idx, record_id>>

Next ==
    \/ Main
    \/ Fire
    \/ \E w \in Workers : Start(w)
    \/ \E w \in Workers : Resolve(w)
    \/ \E w \in Workers : Loop(w)
    \/ \E w \in Workers : Locate(w)
    \/ \E w \in Workers : Write(w)
    \/ \E w \in Workers : JobDone(w)

Spec == Init /\ [][Next]_vars

TypeOK ==
    /\ proc \in {"init", "scheduling", "exited"}
    /\ instances \in 0..MaxWorkers
    /\ \A w \in Workers : idx[w] \in 0..MaxRecords


\* ------------------------------------------------------------- history
\* The calls of kind op that the latest invocation on thread w made, as
\* indices into calls[w]; those made for the name at a given position.
CallsOf(w, op) == {i \in DOMAIN calls[w] : calls[w][i].op = op}
CallsAt(w, op, p) == {i \in CallsOf(w, op) : calls[w][i].pos = p}
Positions == 1..MaxRecords

\* A locate that handed back an identifier the orchestrator accepts
Located(w, p) == \E i \in CallsAt(w, "locate", p) : Truthy(calls[w][i].ret)

\* The invocation on w got an address and is past the loop
Completed(w) == pc[w] = "returned" /\ Truthy(current_ip[w])

\* C1: whenever the address lookup of a cycle failed (the request raised or
\* the status was not 200), that cycle has made no locate and no write call,
\* has taken no record name, and is over.
C1_AbortOnNoAddress ==
    \A w \in Workers :
        (\E i \in CallsOf(w, "lookup") : calls[w][i].answer \in {"exc", "non-200"})
        => /\ CallsOf(w, "locate") = {}
           /\ CallsOf(w, "write") = {}
           /\ pc[w] \in {"returned", "idle"}
           /\ idx[w] = 0

\* a cycle whose lookup answered HTTP 500 has ended (scenario B)
C1_Witness ==
    \E w \in Workers :
        /\ pc[w] = "returned"
        /\ Len(calls[w]) = 1
        /\ calls[w][1].op = "lookup" /\ calls[w][1].answer = "non-200"

\* C2: in a cycle, no list position ever sees more than one locate or more
\* than one write, a write only follows a locate that handed back an
\* identifier, and once a cycle that got an address is over, every position
\* of its record list has exactly one locate, and exactly one write if that
\* locate handed back an identifier and none otherwise.
C2_OncePerRecord ==
    \A w \in Workers : \A p \in Positions :
        /\ Cardinality(CallsAt(w, "locate", p)) <= 1
        /\ Cardinality(CallsAt(w, "write", p)) <= 1
        /\ CallsAt(w, "write", p) # {} => Located(w, p)
        /\ (Completed(w) /\ p <= Len(secrets[w].record_names))
           => /\ Cardinality(CallsAt(w, "locate", p)) = 1
              /\ Located(w, p) => Cardinality(CallsAt(w, "write", p)) = 1
              /\ ~Located(w, p) => CallsAt(w, "write", p) = {}

\* a finished cycle over two names: the first locate failed (no write), the
\* second succeeded and was followed by its write, which failed
C2_Witness ==
    \E w \in Workers :
        /\ Completed(w)
        /\ Len(secrets[w].record_names) = 2
        /\ ~Located(w, 1) /\ CallsAt(w, "write", 1) = {}
        /\ Located(w, 2)
        /\ \E i \in CallsAt(w, "write", 2) : calls[w][i].ret = "False"

\* A failed attempt on the name at position p: its locate handed back no
\* identifier, or its write reported failure
FailedAt(w, p) ==
    \/ \E i \in CallsAt(w, "locate", p) : ~Truthy(calls[w][i].ret)
    \/ \E i \in CallsAt(w, "write", p) : calls[w][i].ret = "False"

\* C3: a failure on the name at position p never ends the cycle: the cycle
\* is never left by exception after it, and when the cycle is over the name
\* at position p + 1, if the list has one, has been attempted.
C3_Independence ==
    \A w \in Workers : \A p \in Positions :
        FailedAt(w, p)
        => /\ pc[w] # "raised"
           /\ (pc[w] = "returned" /\ p < Len(secrets[w].record_names))
              => CallsAt(w, "locate", p + 1) # {}

\* a finished cycle whose first record failed at the write (provider fault)
\* and whose second record was attempted and not found
C3_Witness ==
    \E w \in Workers :
        /\ pc[w] = "returned"
        /\ \E i \in CallsAt(w, "write", 1) : calls[w][i].answer = "exc"
        /\ \E i \in CallsAt(w, "locate", 2) : calls[w][i].answer = "empty"

\* C4: a cycle makes at most one address lookup, it has made exactly one
\* before it processes any record, and every write of the cycle carries the
\* text that this lookup answered with status 200.
C4_OneAddressPerCycle ==
    \A w \in Workers :
        /\ Cardinality(CallsOf(w, "lookup")) <= 1
        /\ (CallsOf(w, "locate") \cup CallsOf(w, "write") # {})
           => Cardinality(CallsOf(w, "lookup")) = 1
        /\ \A i \in CallsOf(w, "write") :
              \E j \in CallsOf(w, "lookup") :
                 /\ j < i
                 /\ calls[w][j].answer = "200"
                 /\ calls[w][i].ip = calls[w][j].ret

\* a cycle that has issued two writes, for two different record ids
C4_Witness ==
    \E w \in Workers :
        \E i, j \in CallsOf(w, "write") : calls[w][i].id # calls[w][j].id

\* The invocations of run_updater that have started and not yet ended
InFlight == {w \in Workers : pc[w] # "idle"}

\* C5: at most one invocation of run_updater is under way at any instant.
C5_OneCycleInFlight ==
    /\ Cardinality(InFlight) <= 1
    /\ instances = Cardinality(InFlight)

\* the trigger fired while a cycle was waiting on the provider, and the
\* firing was skipped
C5_Witness ==
    /\ last_fire = "skipped"
    /\ \E w \in Workers : pc[w] = "write"


\* C6 (as claimed): no invocation of run_updater is ever left by exception.
\* The read of secrets.yaml at main.py:116 has no handler, so it does not
\* hold.
C6_NoExceptionLeavesCycle ==
    \A w \in Workers : pc[w] # "raised"

\* C7: the process ends only from startup (main's own read of secrets.yaml
\* failing); once the scheduler runs, no step of a cycle ends it, and
\* whenever no cycle is under way the next firing is accepted and starts one.
C7_ProcessSurvives ==
    /\ [][proc' = "exited" => proc = "init"]_vars
    /\ []((proc = "scheduling" /\ InFlight = {})
            => (CanSubmit /\ \E w \in Workers : pc[w] = "idle"))

\* the scheduler is waiting for the trigger after a cycle that was aborted
\* because the lookup raised, and after one that was left by exception
C7_Witness ==
    /\ proc = "scheduling"
    /\ InFlight = {}
    /\ instances = 0
    /\ \E w \in Workers :
          /\ calls[w] # <<>>
          /\ calls[w][1].answer = "exc"

\* C8: in the call history of a cycle the lookup is the first call and the
\* only lookup; the locates come in list order, each for the name the list
\* holds at its position, and each directly after the last call made for
\* the position before; a write comes directly after the locate of its own
\* position.
C8_Ordering ==
    \A w \in Workers : \A i \in DOMAIN calls[w] :
        LET c == calls[w][i] IN
        /\ (c.op = "lookup") <=> (i = 1)
        /\ c.op = "locate" => (i > 1 /\ c.pos = calls[w][i - 1].pos + 1)
        /\ c.op = "write" =>
              /\ i > 1
              /\ calls[w][i - 1].op = "locate"
              /\ calls[w][i - 1].pos = c.pos
        /\ (c.op \in {"locate", "write"} /\ pc[w] # "idle")
              => /\ c.pos \in 1..Len(secrets[w].record_names)
                 /\ c.name = secrets[w].record_names[c.pos]

\* a finished cycle over two different names, each located and written
C8_Witness ==
    \E w \in Workers :
        /\ Completed(w)
        /\ Len(secrets[w].record_names) = 2
        /\ secrets[w].record_names[1] # secrets[w].record_names[2]
        /\ Len(calls[w]) = 5
        /\ calls[w][3].op = "write" /\ calls[w][5].op = "write"

\* The warnings run_updater logged for a name, and the locates of that name
\* that handed back no identifier
Warnings(w, name) ==
    {k \in DOMAIN log[w] :
        log[w][k] = Line("WARNING", "Failed to find record ID for", <<name>>)}
FailedLocates(w, name) ==
    {i \in CallsOf(w, "locate") : calls[w][i].name = name /\ ~Truthy(calls[w][i].ret)}

\* C9 (as claimed): the locator's outcome for an empty match set differs
\* from its outcome for a provider fault.  Both are None, so it does not
\* hold.
C9_NotFoundDistinctFromFault ==
    \A w \in Workers : \A i, j \in CallsOf(w, "locate") :
        (calls[w][i].answer = "empty" /\ calls[w][j].answer = "exc")
        => calls[w][i].ret # calls[w][j].ret

\* C9 (amended): when the provider answers a locate with an empty match
\* set, the locator hands back None (as it does on a provider fault), the
\* cycle is not left by exception, no write is made for that position, one
\* warning is logged per failed locate of that name, and when the cycle is
\* over every other position has been located, and written if located.
C9_NotFoundSkipsRecordOnly ==
    \A w \in Workers : \A i \in CallsOf(w, "locate") :
        LET c == calls[w][i] IN
        c.answer = "empty"
        => /\ c.ret = None
           /\ pc[w] # "raised"
           /\ CallsAt(w, "write", c.pos) = {}
           /\ Cardinality(Warnings(w, c.name)) = Cardinality(FailedLocates(w, c.name))
           /\ pc[w] = "returned"
              => \A p \in 1..Len(secrets[w].record_names) :
                    /\ CallsAt(w, "locate", p) # {}
                    /\ Located(w, p) => CallsAt(w, "write", p) # {}

\* a finished cycle: the first name had no match, the second was located
\* and written with the provider's acknowledgement
C9_Witness ==
    \E w \in Workers :
        /\ pc[w] = "returned"
        /\ \E i \in CallsAt(w, "locate", 1) : calls[w][i].answer = "empty"
        /\ \E i \in CallsAt(w, "write", 2) : calls[w][i].answer = "ack"

\* C10 (as claimed): every cycle works on the record names loaded at
\* startup.  run_updater reads secrets.yaml again at main.py:116, so it does
\* not hold.
C10_FixedAtStartup ==
    \A w \in Workers :
        secrets[w].ok => secrets[w].record_names = main_secrets.record_names

\* C10 (amended): the schedule is the one read at startup and never changes
\* while the scheduler runs; the record names are read again at the start of
\* every cycle, stay as read until the cycle is over, and every locate and
\* write of the cycle is for a name of that reading.
C10_ScheduleFixedNamesPerCycle ==
    /\ [](proc = "scheduling" => (main_secrets.ok /\ trigger = main_secrets.cron))
    /\ [][proc = "scheduling" => (trigger' = trigger /\ main_secrets' = main_secrets)]_vars
    /\ [][\A w \in Workers :
            (pc[w] \notin {"idle", "start"} /\ pc'[w] # "idle")
            => secrets'[w] = secrets[w]]_vars
    /\ [](\A w \in Workers : \A i \in CallsOf(w, "locate") \cup CallsOf(w, "write") :
            pc[w] # "idle"
            => /\ secrets[w].ok
               /\ calls[w][i].pos \in DOMAIN secrets[w].record_names
               /\ calls[w][i].name = secrets[w].record_names[calls[w][i].pos])

\* a cycle that read a document with another schedule and other record names
\* than the one read at startup, and has written a record
C10_Witness ==
    \E w \in Workers :
        /\ pc[w] = "returned"
        /\ secrets[w].ok
        /\ secrets[w].record_names # main_secrets.record_names
        /\ secrets[w].cron # trigger
        /\ CallsOf(w, "write") # {}


\* C11: whenever update_dns_record reported success for a write in a cycle,
\* the write was made for the identifier the locate just before it handed
\* back and with the address of the cycle's lookup, and the provider-side
\* content of that record equals that address from then on to the end of
\* the cycle (later writes of the cycle carry the same address); so when a
\* cycle ends with every name located and every write successful, every
\* located record holds the cycle's address.
C11_AcknowledgedWriteIsStored ==
    \A w \in Workers :
        /\ \A i \in CallsOf(w, "write") :
              calls[w][i].ret = "True"
              => /\ calls[w][i].id = calls[w][i - 1].ret
                 /\ calls[w][i].ip = calls[w][1].ret
                 /\ content[calls[w][i - 1].ret] = calls[w][1].ret
        /\ (/\ Completed(w)
            /\ \A p \in 1..Len(secrets[w].record_names) :
                  \E i \in CallsAt(w, "write", p) : calls[w][i].ret = "True")
           => \A j \in CallsOf(w, "locate") : content[calls[w][j].ret] = current_ip[w]

\* scenario A: a.example.com and b.example.com, both located (under two
\* identifiers) and both written with success
C11_Witness ==
    \E w \in Workers :
        /\ Completed(w)
        /\ secrets[w].record_names = <<"a.example.com", "b.example.com">>
        /\ current_ip[w] = "203.0.113.7"
        /\ Len(calls[w]) = 5
        /\ calls[w][3].ret = "True" /\ calls[w][5].ret = "True"
        /\ calls[w][3].id # calls[w][5].id
        /\ \A r \in RecordIds : content[r] = "203.0.113.7"


\* ------------------------------------------------------- the log of a cycle
StartLine == Line("INFO", "Starting DDNS update process", <<>>)
DoneLine  == Line("INFO", "DDNS update process completed", <<>>)
NoIpLine  == Line("ERROR", "Failed to retrieve public IP", <<>>)
OutcomeMsgs == {"Failed to find record ID for", "Successfully updated DNS record",
                "Failed to update DNS record"}
IsRecordLine(l) == l.msg \in OutcomeMsgs \cup {"Processing record"}
IsOutcomeLine(l) == l.msg \in OutcomeMsgs
\* the lines run_updater itself wrote about records, in order
RecordLines(w) == SelectSeq(log[w], IsRecordLine)
Has(w, line) == \E k \in DOMAIN log[w] : log[w][k] = line

\* C13 (as claimed): every cycle that logged its start and from which
\* run_updater has returned has logged the completion line.  A cycle aborted
\* for want of an address returns at main.py:122 without it, so it does not
\* hold.
C13_EveryCycleLogsCompletion ==
    \A w \in Workers :
        (pc[w] = "returned" /\ Has(w, StartLine)) => Has(w, DoneLine)

\* C13 (amended): the start line is the first line of every cycle and
\* appears once.  A cycle left by exception at the configuration read has
\* logged nothing else.  A cycle whose address resolution failed ends with
\* the address-failure line, with no record line and no completion line.  A
\* cycle that resolved the address logged it second, then for each name in
\* list order a processing line followed by one outcome line for that name,
\* and the completion line last and only there.
C13_LogShape ==
    \A w \in Workers :
        LET L == log[w]
            R == RecordLines(w)
            names == secrets[w].record_names
        IN
        /\ L # <<>> => (L[1] = StartLine /\ \A k \in DOMAIN L : k > 1 => L[k] # StartLine)
        /\ pc[w] = "raised" => L = <<StartLine>>
        /\ (pc[w] = "returned" /\ ~Truthy(current_ip[w]))
           => /\ L[Len(L)] = NoIpLine
              /\ ~Has(w, DoneLine)
              /\ R = <<>>
        /\ (pc[w] = "returned" /\ Truthy(current_ip[w]))
           => /\ L[2] = Line("INFO", "Current public IP", <<current_ip[w]>>)
              /\ \A k \in DOMAIN L : (L[k] = DoneLine) <=> (k = Len(L))
              /\ ~Has(w, NoIpLine)
              /\ Len(R) = 2 * Len(names)
              /\ \A p \in 1..Len(names) :
                    /\ R[2 * p - 1] = Line("INFO", "Processing record", <<names[p]>>)
                    /\ IsOutcomeLine(R[2 * p])
                    /\ R[2 * p].args[1] = names[p]

\* a cycle that was aborted after a lookup answered with a non-200 status:
\* start line, failure line, nothing else
C13_Witness ==
    \E w \in Workers :
        /\ pc[w] = "returned"
        /\ log[w] = <<StartLine, NoIpLine>>


\* the outcome lines of a cycle, in order: the p-th is the one of position p
Outcomes(w) == SelectSeq(log[w], IsOutcomeLine)
\* positions the cycle is through with
Finished(w) ==
    Cardinality(CallsOf(w, "locate")) - (IF pc[w] = "write" THEN 1 ELSE 0)

\* C14: a cycle has logged exactly one outcome line for every position it
\* is through with, and that line is the success line exactly when the
\* locate handed back an identifier and the provider acknowledged the
\* write, the write-failure line exactly when the locate handed back an
\* identifier and the write was not acknowledged, and the not-found warning
\* exactly when the locate handed back no identifier.
C14_OutcomeDetermined ==
    \A w \in Workers :
        /\ Len(Outcomes(w)) = Finished(w)
        /\ \A p \in 1..Len(Outcomes(w)) :
              LET o == Outcomes(w)[p]
                  acked == \E i \in CallsAt(w, "write", p) : calls[w][i].answer = "ack"
                  failed == \E i \in CallsAt(w, "write", p) : calls[w][i].answer # "ack"
              IN
              /\ (o.msg = "Successfully updated DNS record") <=> (Located(w, p) /\ acked)
              /\ (o.msg = "Failed to update DNS record") <=> (Located(w, p) /\ failed)
              /\ (o.msg = "Failed to find record ID for") <=> ~Located(w, p)
              /\ \E i \in CallsAt(w, "locate", p) : o.args[1] = calls[w][i].name

\* a finished cycle whose first record was written with success and whose
\* second record was located but not written (the provider raised)
C14_Witness ==
    \E w \in Workers :
        /\ pc[w] = "returned"
        /\ Len(Outcomes(w)) = 2
        /\ Outcomes(w)[1].msg = "Successfully updated DNS record"
        /\ Outcomes(w)[2].msg = "Failed to update DNS record"
        /\ \E i \in CallsAt(w, "write", 2) : calls[w][i].answer = "exc"


\* C15: whenever a locate hands back an identifier the cycle goes on to the
\* write of that record, and the step that follows makes the write call for
\* that identifier with the cycle's address, whatever the content of the
\* record is at that moment.
C15_WriteIsUnconditional ==
    [][\A w \in Workers :
          /\ (pc[w] = "locate" /\ pc'[w] # "locate"
                /\ Truthy(calls'[w][Len(calls'[w])].ret))
             => pc'[w] = "write"
          /\ (pc[w] = "write" /\ pc'[w] # "write")
             => /\ Len(calls'[w]) = Len(calls[w]) + 1
                /\ calls'[w][Len(calls'[w])].op = "write"
                /\ calls'[w][Len(calls'[w])].id = record_id[w]
                /\ calls'[w][Len(calls'[w])].ip = current_ip[w]]_vars

\* a cycle wrote a record with acknowledgement and later wrote the same
\* record again, when its content already was the cycle's address
C15_Witness ==
    \E w \in Workers : \E i, j \in CallsOf(w, "write") :
        /\ i < j
        /\ calls[w][i].id = calls[w][j].id
        /\ calls[w][i].answer = "ack"
        /\ content[calls[w][j].id] = calls[w][j].ip


\* The two ways the design lets a cycle end
Aborted(w) ==
    /\ pc[w] = "returned"
    /\ ~Truthy(current_ip[w])
    /\ CallsOf(w, "locate") = {}
CycleComplete(w) ==
    /\ pc[w] = "returned"
    /\ Truthy(current_ip[w])
    /\ \A p \in 1..Len(secrets[w].record_names) : CallsAt(w, "locate", p) # {}

\* C17 (as claimed): a cycle that is over was either aborted for want of an
\* address or went through its whole record list.  A cycle left by the
\* exception of the configuration read (C6) is neither.
C17_TwoTerminalStates ==
    \A w \in Workers :
        pc[w] \in {"returned", "raised"} => (Aborted(w) \/ CycleComplete(w))

\* Every call comes back and the pool thread keeps running: each step of an
\* invocation that can be taken is taken.
CycleStep(w) ==
    Start(w) \/ Resolve(w) \/ Loop(w) \/ Locate(w) \/ Write(w) \/ JobDone(w)
FairSpec == Spec /\ \A w \in Workers : WF_vars(CycleStep(w))

\* Termination alone: under FairSpec every started invocation is over at
\* some point (returned or left by exception).
CycleEnds ==
    \A w \in Workers : (pc[w] = "start") ~> (pc[w] \in {"returned", "raised"})


\* C19: the provider-side content changes only in a step in which a cycle
\* makes its write call; the call just before it in that cycle is the locate
\* of a name of the cycle's record list, the only record that changes is
\* the one whose identifier that locate handed back, and its new content is
\* the address passed to the write.  Reading the configuration, the address
\* lookup, the locate and the end of a cycle change no record.
C19_Frame ==
    [][content' # content
       => \E w \in Workers :
             LET n == Len(calls[w])
                 wr == calls'[w][n + 1]
             IN
             /\ pc[w] = "write"
             /\ Len(calls'[w]) = n + 1
             /\ wr.op = "write"
             /\ calls[w][n].op = "locate"
             /\ calls[w][n].name = secrets[w].record_names[calls[w][n].pos]
             /\ calls[w][n].ret = wr.id
             /\ \A r \in RecordIds :
                   content'[r] # content[r] => (r = wr.id /\ content'[r] = wr.ip)]_vars

\* a write has just changed one record to the cycle's address while the
\* other record still holds another address
C19_Witness ==
    \E w \in Workers :
        /\ pc[w] = "loop"
        /\ calls[w][Len(calls[w])].op = "write"
        /\ calls[w][Len(calls[w])].answer = "ack"
        /\ \E r \in RecordIds : content[r] # current_ip[w]


\* C20: a cycle whose lookup answered status 200 with an empty body makes no
\* locate and no write, is over, and has logged what a failed lookup logs;
\* a locate that handed back an empty identifier is followed by the
\* not-found warning and by no write for that position; and no write call is
\* ever made with an empty or missing address or identifier.
C20_EmptyIsFailure ==
    \A w \in Workers :
        /\ (\E i \in CallsOf(w, "lookup") :
               calls[w][i].answer = "200" /\ calls[w][i].ret = Empty)
           => /\ CallsOf(w, "locate") = {}
              /\ CallsOf(w, "write") = {}
              /\ pc[w] \in {"returned", "idle"}
              /\ log[w] = <<StartLine, NoIpLine>>
        /\ \A i \in CallsOf(w, "locate") :
              calls[w][i].ret = Empty
              => /\ CallsAt(w, "write", calls[w][i].pos) = {}
                 /\ Warnings(w, calls[w][i].name) # {}
        /\ \A i \in CallsOf(w, "write") :
              /\ calls[w][i].ip \notin {None, Empty}
              /\ calls[w][i].id \notin {None, Empty}

\* a cycle whose lookup answered 200 with an empty body has been aborted
C20_Witness ==
    \E w \in Workers :
        /\ pc[w] = "returned"
        /\ Len(calls[w]) = 1
        /\ calls[w][1].answer = "200"
        /\ calls[w][1].ret = Empty


\* -------------------------------------------------- a stable environment
\* From the first cycle on: the process starts, every read of secrets.yaml
\* succeeds, the public address is StableAddr and the lookup reports it,
\* every locate finds a record and every write is acknowledged.
StableAddr == "203.0.113.7"
Stable ==
    /\ proc # "exited"
    /\ \A w \in Workers :
          /\ pc[w] # "raised"
          /\ \A i \in DOMAIN calls[w] :
                LET c == calls[w][i] IN
                /\ c.op = "lookup" => (c.answer = "200" /\ c.ret = StableAddr)
                /\ c.op = "locate" => (c.answer = "match" /\ c.ret \in RecordIds)
                /\ c.op = "write" => c.answer = "ack"

StableNext ==
    \/ Main /\ Stable'
    \/ Fire /\ Stable'
    \/ \E w \in Workers : Start(w) /\ Stable'
    \/ \E w \in Workers : Resolve(w) /\ Stable'
    \/ \E w \in Workers : Loop(w) /\ Stable'
    \/ \E w \in Workers : Locate(w) /\ Stable'
    \/ \E w \in Workers : Write(w) /\ Stable'
    \/ \E w \in Workers : JobDone(w) /\ Stable'

\* The trigger keeps firing, every call comes back, the pool thread runs.
SpecStable ==
    /\ Init
    /\ [][StableNext]_vars
    /\ WF_vars(Main /\ Stable')
    /\ WF_vars(Fire /\ Stable')
    /\ \A w \in Workers : WF_vars(CycleStep(w) /\ Stable')

\* the record r was handed back by a locate of the cycle on thread w
LocatedRecord(r) ==
    \E w \in Workers : \E i \in CallsOf(w, "locate") : calls[w][i].ret = r

\* C18: in the stable environment, once a record has been located for a
\* configured name its content becomes StableAddr and then stays StableAddr
\* for ever.
C18_Converges ==
    \A r \in RecordIds : LocatedRecord(r) ~> [](content[r] = StableAddr)

\* a record that held another address has been located, written and now
\* holds StableAddr, while the other record still holds the other address
C18_Witness ==
    \E w \in Workers : \E i \in CallsOf(w, "write") :
        /\ Stable
        /\ content[calls[w][i].id] = StableAddr
        /\ \E r \in RecordIds : content[r] # StableAddr


\* ------------------------------------------------ two consecutive cycles
\* The second cycle reads the configuration the first one read and each of
\* its calls is answered in the same way (exception, status, match or not,
\* acknowledged or not, applied or not) as the call at that place in the
\* first; the values answered (address, record ids) are free.  The trigger
\* does not fire while a cycle runs and nothing is run after the second cycle.
Follows ==
    /\ last_fire # "skipped"
    /\ prev.mode = "second" =>
          \A i \in DOMAIN prev.eff :
             i <= Len(prev.eff1) /\ prev.eff[i] = prev.eff1[i]
    /\ prev.mode = "second" =>
          \A w \in Workers :
             /\ pc[w] \notin {"idle", "start"} => secrets[w] = prev.secrets
             /\ pc[w] # "idle" =>
                   /\ Len(calls[w]) <= Len(prev.calls)
                   /\ \A i \in DOMAIN calls[w] :
                         /\ calls[w][i].op = prev.calls[i].op
                         /\ calls[w][i].answer = prev.calls[i].answer
    /\ prev.mode = "done" => \A w \in Workers : pc[w] = "idle"

TwoCyclesNext ==
    \/ Main /\ Follows'
    \/ Fire /\ Follows'
    \/ \E w \in Workers : Start(w) /\ Follows'
    \/ \E w \in Workers : Resolve(w) /\ Follows'
    \/ \E w \in Workers : Loop(w) /\ Follows'
    \/ \E w \in Workers : Locate(w) /\ Follows'
    \/ \E w \in Workers : Write(w) /\ Follows'
    \/ \E w \in Workers : JobDone(w) /\ Follows'

\* The addresses are interchangeable: one record starts with StableAddr,
\* the other with either address.
InitTwoCycles ==
    /\ Constructed
    /\ content["r1"] = StableAddr
    /\ prev = History("first")

SpecTwoCycles == InitTwoCycles /\ [][TwoCyclesNext]_vars


\* What a cycle was given from outside, call by call: which call it was,
\* for which name, how it was answered and what came back to run_updater
\* (the arguments the cycle chose for a write are left out).
Given(cs) ==
    [i \in DOMAIN cs |->
        [op |-> cs[i].op, pos |-> cs[i].pos, name |-> cs[i].name,
         answer |-> cs[i].answer, ret |-> cs[i].ret]]

\* C12: two consecutive cycles that read the same configuration, resolved
\* the same address, got the same locate results and the same write results
\* (answer and effect at the provider): the provider-side content after
\* the second cycle is the content after the first cycle.
C12_Idempotent ==
    (/\ prev.mode = "done"
     /\ Given(prev.calls2) = Given(prev.calls)
     /\ prev.eff = prev.eff1)
    => prev.content2 = prev.content

\* two such cycles, each with a write that changed or set the record
C12_Witness ==
    /\ prev.mode = "done"
    /\ Given(prev.calls2) = Given(prev.calls)
    /\ prev.eff = prev.eff1
    /\ \E i \in DOMAIN prev.eff : prev.eff[i]
    /\ \E i \in DOMAIN prev.calls2 :
          /\ prev.calls2[i].op = "write"
          /\ prev.content2[prev.calls2[i].id] = prev.calls2[i].ip
    /\ prev.content2 = prev.content

\* C16: every write of a cycle carries the address its own lookup returned
\* and the record id its own locate of that name, the call just before,
\* returned: nothing obtained in the cycle before is used.
C16_NothingCarriedOver ==
    \A w \in Workers : \A i \in CallsOf(w, "write") :
        /\ calls[w][1].op = "lookup"
        /\ calls[w][i].ip = calls[w][1].ret
        /\ i > 1
        /\ calls[w][i - 1].op = "locate"
        /\ calls[w][i - 1].name = calls[w][i].name
        /\ calls[w][i - 1].pos = calls[w][i].pos
        /\ calls[w][i].id = calls[w][i - 1].ret

\* the second cycle has written, for a name the first cycle wrote too, a
\* record under another id and with another address than the first cycle
\* did: the id and the address of its own locate and lookup
C16_Witness ==
    /\ prev.mode = "done"
    /\ \E i \in DOMAIN prev.calls2 :
          /\ i \in DOMAIN prev.calls
          /\ prev.calls2[i].op = "write"
          /\ prev.calls[i].op = "write"
          /\ prev.calls2[i].name = prev.calls[i].name
          /\ prev.calls2[i].id # prev.calls[i].id
          /\ prev.calls2[i].ip # prev.calls[i].ip
          /\ prev.calls2[i].id = prev.calls2[i - 1].ret
          /\ prev.calls2[i].ip = prev.calls2[1].ret
          /\ prev.calls2[i].answer = "ack"
          /\ prev.content2[prev.calls2[i].id] = prev.calls2[i].ip

=============================================================================
